---------------------------- MODULE Spec2Model ----------------------------
(***************************************************************************)
(* A model of rename.py (tahamoeini/pdf-renamer): the text normalizer, the   *)
(* three title extractors and their selector, the filename sanitizer and    *)
(* the rename orchestrator running over a small directory tree.             *)
(*                                                                         *)
(* A string is a sequence of characters; a character is a one-symbol        *)
(* string.  Two symbols stand for non-ASCII code points: "e_acute" (U+00E9, *)
(* which NFKD decomposes) and "comb_acute" (U+0301).  "TAB" is U+0009.      *)
(***************************************************************************)
EXTENDS Integers, Sequences, FiniteSets, TLC

(***************************************************************************)
(* Bounds of the model.                                                    *)
(***************************************************************************)
MaxTokens == 4      \* tokens concatenated into one sanitizer input
MaxNodes == 3       \* directory entries below the root
MaxSubdirs == 1     \* of them, subdirectories of the root
MaxRuns == 2        \* consecutive runs of rename_pdfs_in_directory
MaxPages == 4       \* pages of a document handed to the extractors
MaxLineLen == 6     \* length of the exhaustively enumerated text lines

\* rename.py:14
MAX_FILENAME_LENGTH == 100

\* rename.py:46 and :64, range(min(len(doc), 3))
SCAN_PAGES == 3

(***************************************************************************)
(* Characters and Python's str / re primitives.                            *)
(***************************************************************************)
AsciiLower == <<"a","b","c","d","e","f","g","h","i","j","k","l","m",
                "n","o","p","q","r","s","t","u","v","w","x","y","z">>

AsciiUpper == <<"A","B","C","D","E","F","G","H","I","J","K","L","M",
                "N","O","P","Q","R","S","T","U","V","W","X","Y","Z">>

AsciiDigits == {"0","1","2","3","4","5","6","7","8","9"}

Range(s) == {s[i] : i \in DOMAIN s}

AsciiLetters == Range(AsciiLower) \cup Range(AsciiUpper)

\* \s of a str pattern, and the characters str.strip() / str.split() remove
Whitespace == {" ", "TAB"}

\* \w of a str pattern: Unicode letters and digits, and the underscore
WordChars == AsciiLetters \cup AsciiDigits \cup {"_", "e_acute"}

\* None, as returned by the extractors
None == <<"<None>">>

\* "if title:" -- neither None nor the empty string
Truthy(s) == s # None /\ s # <<>>

\* str.lower()
LowerChar(c) ==
    IF \E i \in 1..26 : AsciiUpper[i] = c
    THEN AsciiLower[CHOOSE i \in 1..26 : AsciiUpper[i] = c]
    ELSE c

Lower(s) == [i \in DOMAIN s |-> LowerChar(s[i])]

\* "phrase in title"
Contains(s, phrase) ==
    \E i \in 0..(Len(s) - Len(phrase)) :
        \A j \in 1..Len(phrase) : s[i + j] = phrase[j]

\* the positions of the characters that are not whitespace
InkAt(s) == {i \in DOMAIN s : s[i] \notin Whitespace}

Lowest(S) == CHOOSE i \in S : \A j \in S : i <= j

Highest(S) == CHOOSE i \in S : \A j \in S : j <= i

\* the k-th smallest element of a set of integers
Kth(S, k) == CHOOSE i \in S : Cardinality({j \in S : j < i}) = k - 1

\* str.lstrip()
LStrip(s) == IF InkAt(s) = {} THEN <<>> ELSE SubSeq(s, Lowest(InkAt(s)), Len(s))

\* str.strip()
Strip(s) ==
    IF InkAt(s) = {} THEN <<>> ELSE SubSeq(s, Lowest(InkAt(s)), Highest(InkAt(s)))

\* str.split(): the maximal runs of non-whitespace characters, in order
Split(s) ==
    LET starts == {i \in InkAt(s) : i = 1 \/ s[i - 1] \in Whitespace}
        ends == {i \in InkAt(s) : i = Len(s) \/ s[i + 1] \in Whitespace}
    IN  [k \in 1..Cardinality(starts) |-> SubSeq(s, Kth(starts, k), Kth(ends, k))]

\* str(counter)
RECURSIVE DecimalDigits(_)
DecimalDigits(n) ==
    LET d == <<"0","1","2","3","4","5","6","7","8","9">>[(n % 10) + 1]
    IN  IF n < 10 THEN <<d>> ELSE Append(DecimalDigits(n \div 10), d)

(***************************************************************************)
(* normalize_text                                                          *)
(***************************************************************************)
Untitled == <<"U","n","t","i","t","l","e","d">>

\* unicodedata.normalize('NFKD', text)
RECURSIVE NFKD(_)
NFKD(s) ==
    IF s = <<>> THEN <<>>
    ELSE (IF Head(s) = "e_acute" THEN <<"e", "comb_acute">> ELSE <<Head(s)>>)
         \o NFKD(Tail(s))

\* the class [\w\s\-.,:;()&%/|+_] of rename.py:22
NormalizeKeep ==
    WordChars \cup Whitespace
        \cup {"-", ".", ",", ":", ";", "(", ")", "&", "%", "/", "|", "+", "_"}

\* re.sub(r'[^\w\s\-.,:;()&%/|+_]', '', text)
RemoveInvalid(s) == SelectSeq(s, LAMBDA c : c \in NormalizeKeep)

\* re.sub(r'\s+', ' ', text)
CollapseSpaces(s) ==
    LET kept == {i \in DOMAIN s : s[i] \notin Whitespace \/ i = 1 \/ s[i - 1] \notin Whitespace}
    IN  [k \in 1..Cardinality(kept) |->
            IF s[Kth(kept, k)] \in Whitespace THEN " " ELSE s[Kth(kept, k)]]

normalize_text(text) ==
    IF ~Truthy(text) THEN Untitled
    ELSE LET t1 == Strip(NFKD(text))
             t2 == RemoveInvalid(t1)
             t3 == Strip(CollapseSpaces(t2))
         IN  IF Len(t3) > 3 THEN t3 ELSE Untitled

(***************************************************************************)
(* sanitize_filename                                                       *)
(***************************************************************************)
\* the class [<>:"/\\|?*] of rename.py:97
ReservedChars == {"<", ">", ":", "\"", "/", "\\", "|", "?", "*"}

ReplaceReserved(title) ==
    [i \in DOMAIN title |-> IF title[i] \in ReservedChars THEN "_" ELSE title[i]]

\* the loop of rename.py:102-106
RECURSIVE AppendWords(_, _)
AppendWords(words, new_title) ==
    IF words = <<>> THEN new_title
    ELSE IF Len(new_title) + Len(Head(words)) + 1 <= MAX_FILENAME_LENGTH
         THEN AppendWords(Tail(words), new_title \o Head(words) \o <<" ">>)
         ELSE new_title

\* A slip the sanitizer could have made: cut at the limit, inside a word.
TruncateTitle_cut(title) == SubSeq(title, 1, MAX_FILENAME_LENGTH)

\* rename.py:100-107, the branch taken when the title is too long
TruncateTitle(title) == Strip(AppendWords(Split(title), <<>>))

sanitize_filename(title) ==
    LET t == ReplaceReserved(title)
    IN  IF Len(t) > MAX_FILENAME_LENGTH THEN TruncateTitle(t) ELSE t

(***************************************************************************)
(* Documents.  A document is what PyPDF2 and PyMuPDF make of a path:        *)
(*   metaRaises  PdfReader(...) or .metadata raises                        *)
(*   title       metadata.get('/Title', ''), "" when the field is absent   *)
(*   openFails   fitz.open(...) raises                                     *)
(*   pages       per page: whether load_page/get_text raises, and the      *)
(*               lines text.split("\n") yields (<< <<>> >> for text "")    *)
(***************************************************************************)
MetaDenylist == {
    <<"p","a","p","e","r"," ","t","i","t","l","e">>,
    <<"d","r","a","f","t">>,
    <<"u","n","t","i","t","l","e","d">> }

\* rename.py:35
MetaRejected(title) == \E phrase \in MetaDenylist : Contains(Lower(title), phrase)

get_pdf_title_metadata(doc) ==
    IF doc.metaRaises THEN None
    ELSE IF Truthy(doc.title) /\ ~MetaRejected(doc.title)
         THEN normalize_text(doc.title)
         ELSE None

\* re.match(r'^\d{4}$', cleaned_line)
IsYear(s) == Len(s) = 4 /\ \A i \in 1..4 : s[i] \in AsciiDigits

\* the class [A-Za-z0-9\s\-_&,:;.!?()] of rename.py:67
TitlePatternChars ==
    AsciiLetters \cup AsciiDigits \cup Whitespace
        \cup {"-", "_", "&", ",", ":", ";", ".", "!", "?", "(", ")"}

\* re.match(title_pattern, cleaned_line)
MatchesTitlePattern(s) == Len(s) >= 1 /\ \A i \in 1..Len(s) : s[i] \in TitlePatternChars

\* A slip the first-page predicate could have made: a stricter length test.
TextAccepts_strict(cleaned_line) == Len(cleaned_line) > 6 /\ ~IsYear(cleaned_line)

\* rename.py:51
TextAccepts(cleaned_line) == Len(cleaned_line) > 4 /\ ~IsYear(cleaned_line)

\* rename.py:70
RegexAccepts(cleaned_line) == MatchesTitlePattern(cleaned_line) /\ Len(cleaned_line) > 5

Accepts(ext, cleaned_line) ==
    IF ext = "text" THEN TextAccepts(cleaned_line) ELSE RegexAccepts(cleaned_line)

\* the loop over text.split("\n"): the first accepted cleaned line, or None
RECURSIVE FirstAccepted(_, _)
FirstAccepted(ext, lines) ==
    IF lines = <<>> THEN None
    ELSE LET cleaned_line == normalize_text(Head(lines))
         IN  IF Accepts(ext, cleaned_line) THEN cleaned_line
             ELSE FirstAccepted(ext, Tail(lines))

\* "if text:" for the text whose split is `lines`
TextTruthy(lines) == lines # << <<>> >>

\* One iteration of "for page_num in range(...)": the page raises, a line is
\* accepted (the function returns it), or the loop goes on to the next page.
PageOutcome(ext, page) ==
    IF page.raises THEN [kind |-> "raise", line |-> None]
    ELSE IF ~TextTruthy(page.lines) THEN [kind |-> "next", line |-> None]
    ELSE LET l == FirstAccepted(ext, page.lines)
         IN  IF l = None THEN [kind |-> "next", line |-> None]
             ELSE [kind |-> "accept", line |-> l]

Min(a, b) == IF a < b THEN a ELSE b

\* range(min(len(doc), 3))
PagesToScan(doc) == Min(Len(doc.pages), SCAN_PAGES)

RECURSIVE ScanFrom(_, _, _)
ScanFrom(ext, doc, page_num) ==
    IF page_num >= PagesToScan(doc) THEN None
    ELSE LET o == PageOutcome(ext, doc.pages[page_num + 1])
         IN  CASE o.kind = "raise" -> None
               [] o.kind = "accept" -> o.line
               [] OTHER -> ScanFrom(ext, doc, page_num + 1)

ExtractorTitle(ext, doc) == IF doc.openFails THEN None ELSE ScanFrom(ext, doc, 0)

get_pdf_title_text(doc) == ExtractorTitle("text", doc)

get_pdf_title_using_regex(doc) == ExtractorTitle("regex", doc)

\* [source, title] of the selector; stem is pdf_path.stem
BestTitle(doc, stem) ==
    LET m == get_pdf_title_metadata(doc)
        t == get_pdf_title_text(doc)
        r == get_pdf_title_using_regex(doc)
    IN  IF Truthy(m) THEN [source |-> "metadata", title |-> m]
        ELSE IF Truthy(t) THEN [source |-> "text", title |-> t]
        ELSE IF Truthy(r) THEN [source |-> "regex", title |-> r]
        ELSE [source |-> "stem", title |-> stem]

extract_best_title(doc, stem) == BestTitle(doc, stem).title

(***************************************************************************)
(* The directory tree.  A tree maps node ids to [parent, name, kind, doc];  *)
(* parent 0 is the directory handed to rename_pdfs_in_directory.  A path is *)
(* the sequence of names from that directory down, so renaming a directory *)
(* changes the path of everything in it.                                   *)
(***************************************************************************)
RECURSIVE PathOf(_, _)
PathOf(tree, n) ==
    IF tree[n].parent = 0 THEN <<tree[n].name>>
    ELSE Append(PathOf(tree, tree[n].parent), tree[n].name)

\* Path.exists()
Exists(tree, path) == \E n \in DOMAIN tree : PathOf(tree, n) = path

NodeAt(tree, path) == CHOOSE n \in DOMAIN tree : PathOf(tree, n) = path

\* Path.parent and Path.name
ParentPath(path) == SubSeq(path, 1, Len(path) - 1)

NameOf(path) == path[Len(path)]

\* the node of the directory a path lies in, 0 for the root
ParentNode(tree, path) ==
    IF Len(path) = 1 THEN 0 ELSE NodeAt(tree, ParentPath(path))

\* str.rfind('.'), 0 when there is none (Python: -1), else the 1-based index
RECURSIVE RFindDot(_, _)
RFindDot(name, i) ==
    IF i = 0 THEN 0 ELSE IF name[i] = "." THEN i ELSE RFindDot(name, i - 1)

\* Path.stem: the name without its last suffix
Stem(name) ==
    LET i == RFindDot(name, Len(name))
    IN  IF 1 < i /\ i < Len(name) THEN SubSeq(name, 1, i - 1) ELSE name

DotPdf == <<".","p","d","f">>

\* the pattern "*.pdf" of rglob
MatchesPdf(name) ==
    Len(name) >= 4 /\ SubSeq(name, Len(name) - 3, Len(name)) = DotPdf

\* What the libraries make of a directory: every open raises.
DirDoc == [metaRaises |-> TRUE, title |-> <<>>, openFails |-> TRUE, pages |-> <<>>]

DocAt(tree, path) ==
    LET n == NodeAt(tree, path)
    IN  IF tree[n].kind = "dir" THEN DirDoc ELSE tree[n].doc

\* list(directory.rglob("*.pdf")): every entry, file or directory, whose name
\* matches, a directory's own entries before those of its subdirectories and
\* the entries of one directory together, in any (scandir) order.
MatchingPaths(tree) ==
    {PathOf(tree, n) : n \in {m \in DOMAIN tree : MatchesPdf(tree[m].name)}}

Enumerations(tree) ==
    LET paths == MatchingPaths(tree)
        k == Cardinality(paths)
    IN  {e \in [1..k -> paths] :
            /\ \A i, j \in 1..k : i < j =>
                  /\ e[i] # e[j]
                  /\ Len(e[i]) <= Len(e[j])
            /\ \A i, j, l \in 1..k : (i < j /\ j < l) =>
                  (ParentPath(e[i]) = ParentPath(e[l])
                      => ParentPath(e[j]) = ParentPath(e[i]))}

\* os.rename(src, dst) raises on its own account: the source is gone, the
\* destination's directory is gone, or the destination is a directory or
\* the source is one (POSIX lets a file replace a file and nothing else).
OsRenameRaises(tree, src, dst) ==
    \/ ~Exists(tree, src)
    \/ (Len(dst) > 1 /\ ~Exists(tree, ParentPath(dst)))
    \/ /\ Exists(tree, dst)
       /\ NodeAt(tree, dst) # NodeAt(tree, src)
       /\ (tree[NodeAt(tree, dst)].kind = "dir" \/ tree[NodeAt(tree, src)].kind = "dir")

\* os.rename(src, dst) when it succeeds: the node moves to dst, and a file
\* that was at dst is replaced (it is gone).
os_rename(tree, src, dst) ==
    LET s == NodeAt(tree, src)
        keep == {n \in DOMAIN tree : n = s \/ PathOf(tree, n) # dst}
        moved == [tree[s] EXCEPT !.parent = ParentNode(tree, dst), !.name = NameOf(dst)]
    IN  [n \in keep |-> IF n = s THEN moved ELSE tree[n]]

(***************************************************************************)
(* rename_pdf                                                              *)
(***************************************************************************)
\* existing_titles[base_name] of a defaultdict(int)
Count(table, base_name) == IF base_name \in DOMAIN table THEN table[base_name] ELSE 0

\* rename.py:116
InvalidTitle(safe_title) == safe_title = <<>> \/ Lower(safe_title) = <<"u","n","t","i","t","l","e","d">>

\* f"{safe_title}.pdf"
BaseName(safe_title) == safe_title \o DotPdf

\* A slip: the entry of the suffixed name is incremented, not the base name's.
IncrementTable_suffixed(table, safe_title, counter) ==
    LET key == IF counter > 0
               THEN safe_title \o <<"_">> \o DecimalDigits(counter) \o DotPdf
               ELSE BaseName(safe_title)
    IN  (key :> (Count(table, key) + 1)) @@ table

\* rename.py:121, existing_titles[base_name] += 1
IncrementTable(table, safe_title, counter) ==
    (BaseName(safe_title) :> (counter + 1)) @@ table

\* A slip: the first duplicate gets the suffix _2.
AssignedName_offbyone(safe_title, counter) ==
    IF counter > 0
    THEN safe_title \o <<"_">> \o DecimalDigits(counter + 1) \o DotPdf
    ELSE BaseName(safe_title)

\* rename.py:119-124
AssignedName(safe_title, counter) ==
    IF counter > 0
    THEN safe_title \o <<"_">> \o DecimalDigits(counter) \o DotPdf
    ELSE BaseName(safe_title)

\* A slip: the new path is built in the run's directory, not the file's.
TargetPath_root(pdf_path, base_name) == <<base_name>>

\* rename.py:126, pdf_path.parent / base_name
TargetPath(pdf_path, base_name) == Append(ParentPath(pdf_path), base_name)

\* A slip: the selector gives up with the placeholder, not the stem.
TitleOf_placeholder(doc, pdf_path) ==
    LET b == BestTitle(doc, Stem(NameOf(pdf_path)))
    IN  IF b.source = "stem" THEN Untitled ELSE b.title

\* rename.py:113, extract_best_title(pdf_path)
TitleOf(doc, pdf_path) == extract_best_title(doc, Stem(NameOf(pdf_path)))

\* rename.py:116-126, once the sanitized title is known
AssignPath(pdf_path, table, safe_title) ==
    IF InvalidTitle(safe_title)
    THEN [path |-> pdf_path, table |-> table, safe_title |-> safe_title]
    ELSE [path |-> TargetPath(pdf_path,
                       AssignedName(safe_title, Count(table, BaseName(safe_title)))),
          table |-> IncrementTable(table, safe_title, Count(table, BaseName(safe_title))),
          safe_title |-> safe_title]

\* rename_pdf(pdf_path, existing_titles): the path returned, the table as it
\* leaves it, and the sanitized title it computed on the way.
rename_pdf(doc, pdf_path, table) ==
    CHOOSE r \in {AssignPath(pdf_path, table, safe_title) :
                     safe_title \in {sanitize_filename(TitleOf(doc, pdf_path))}} : TRUE

(***************************************************************************)
(* The state.                                                              *)
(***************************************************************************)
VARIABLES
    \* rename_pdfs_in_directory
    dirExists,        \* directory.exists()
    fs,               \* the tree under the directory
    fs0,              \* the tree before the first run (never written)
    run,              \* runs started so far
    pc,               \* "off", "idle", "loop" or "done"
    pdf_files,        \* the list rglob returned to this run
    idx,              \* 1-based position of the loop in pdf_files
    existing_titles,  \* the collision table of this run
    outcome,          \* per entry: "pending", "missing", "skipped", "renamed", "error"
    assigned,         \* per entry: the path rename_pdf returned (None before)
    safe_titles,      \* per entry: the sanitized title rename_pdf computed (None before)
    warnings,         \* "File not found" warnings logged in this run
    errors,           \* "Error renaming" errors logged in this run
    renameFailed,     \* some os.rename has raised since the first run began
    \* extract_best_title, step by step
    x_doc,            \* the document at pdf_path
    x_stem,           \* pdf_path.stem
    x_pc,             \* "off", "metadata", "open", "scan" or "selected"
    x_ext,            \* the extractor running: "metadata", "text" or "regex"
    x_page,           \* page_num
    x_handle,         \* per text-based extractor: "none", "open" or "closed"
    x_result,         \* per extractor: what it returned ("pending" before)
    x_raised,         \* per extractor: whether its except clause ran
    x_title,          \* what extract_best_title returned
    x_source,         \* which step supplied it
    \* sanitize_filename
    s_pc,             \* "off", "call" or "returned"
    s_title,          \* the argument
    s_result          \* the value returned

rvars == <<dirExists, fs, fs0, run, pc, pdf_files, idx, existing_titles, outcome,
           assigned, safe_titles, warnings, errors, renameFailed>>

xvars == <<x_doc, x_stem, x_pc, x_ext, x_page, x_handle, x_result, x_raised,
           x_title, x_source>>

svars == <<s_pc, s_title, s_result>>

vars == <<rvars, xvars, svars>>

(***************************************************************************)
(* The directories the runs start from.                                    *)
(***************************************************************************)
TitleT == <<"t","t","t","t">>

\* a metadata title, "tttt"
DocT == [metaRaises |-> FALSE, title |-> TitleT, openFails |-> FALSE, pages |-> <<>>]

\* nothing to extract: no metadata title and no page
DocNone == [metaRaises |-> FALSE, title |-> <<>>, openFails |-> FALSE, pages |-> <<>>]

\* a first line too short for the normalizer: the title is "Untitled"
DocShortLine ==
    [metaRaises |-> FALSE, title |-> <<>>, openFails |-> FALSE,
     pages |-> << [raises |-> FALSE, lines |-> << <<"H","i">> >>] >>]

\* a damaged file: PdfReader and fitz.open both raise
DocCorrupt == [metaRaises |-> TRUE, title |-> <<>>, openFails |-> TRUE, pages |-> <<>>]

DocSamples == <<DocT, DocNone, DocShortLine, DocCorrupt>>

StemSamples == <<<<"a">>, TitleT, <<"t","t","t","t","_","1">>, <<"a",":">>>>

DirNameSamples == <<<<"s","u","b">>, TitleT \o DotPdf, <<"a",":">> \o DotPdf>>

\* strictly increasing sequences of length n over 1..m
Increasing(n, m) ==
    {q \in [1..n -> 1..m] : \A i, j \in 1..n : i < j => q[i] < q[j]}

\* nd directories (nodes 1..nd, in the root) and nf files (nodes nd+1..nd+nf),
\* file i in directory (slot-1) \div NS under the stem (slot-1) % NS + 1.
MakeTree(dirs, slots, docs) ==
    LET nd == Len(dirs)
        nf == Len(slots)
        NS == Len(StemSamples)
    IN  [n \in 1..(nd + nf) |->
            IF n <= nd
            THEN [parent |-> 0, name |-> DirNameSamples[dirs[n]], kind |-> "dir",
                  doc |-> DirDoc]
            ELSE [parent |-> (slots[n - nd] - 1) \div NS,
                  name |-> StemSamples[((slots[n - nd] - 1) % NS) + 1] \o DotPdf,
                  kind |-> "file",
                  doc |-> DocSamples[docs[n - nd]]]]

DistinctPaths(tree) ==
    \A m, n \in DOMAIN tree : m # n => PathOf(tree, m) # PathOf(tree, n)

InitialTrees ==
    {t \in UNION {
        UNION {
            {MakeTree(dirs, slots, docs) :
                dirs \in Increasing(nd, Len(DirNameSamples)),
                slots \in Increasing(nf, (nd + 1) * Len(StemSamples)),
                docs \in [1..nf -> 1..Len(DocSamples)]}
            : nf \in 0..(MaxNodes - nd)}
        : nd \in 0..MaxSubdirs} : DistinctPaths(t)}

RunIdle ==
    /\ run = 0
    /\ pdf_files = <<>>
    /\ idx = 1
    /\ existing_titles = <<>>
    /\ outcome = <<>>
    /\ assigned = <<>>
    /\ safe_titles = <<>>
    /\ warnings = {}
    /\ errors = {}
    /\ renameFailed = FALSE

RunOff ==
    /\ pc = "off"
    /\ dirExists = TRUE
    /\ fs = <<>>
    /\ fs0 = <<>>
    /\ RunIdle

RunInit ==
    /\ pc = "idle"
    /\ \/ dirExists = TRUE /\ fs \in InitialTrees
       \/ dirExists = FALSE /\ fs = <<>>
    /\ fs0 = fs
    /\ RunIdle

(***************************************************************************)
(* rename_pdfs_in_directory                                                *)
(***************************************************************************)
\* rename.py:132-134: the directory is missing, the run logs and returns
MissingDirectory ==
    /\ pc \in {"idle", "done"}
    /\ run < MaxRuns
    /\ ~dirExists
    /\ run' = run + 1
    /\ pc' = "done"
    /\ pdf_files' = <<>>
    /\ idx' = 1
    /\ existing_titles' = <<>>
    /\ outcome' = <<>>
    /\ assigned' = <<>>
    /\ safe_titles' = <<>>
    /\ warnings' = {}
    /\ errors' = {"directory"}
    /\ UNCHANGED <<dirExists, fs, fs0, renameFailed, xvars, svars>>

\* rename.py:136-137: the enumeration and the fresh table
StartRun ==
    /\ pc \in {"idle", "done"}
    /\ run < MaxRuns
    /\ dirExists
    /\ \E e \in Enumerations(fs) :
          /\ pdf_files' = e
          /\ outcome' = [i \in 1..Len(e) |-> "pending"]
          /\ assigned' = [i \in 1..Len(e) |-> None]
          /\ safe_titles' = [i \in 1..Len(e) |-> None]
    /\ run' = run + 1
    /\ pc' = "loop"
    /\ idx' = 1
    /\ existing_titles' = <<>>
    /\ warnings' = {}
    /\ errors' = {}
    /\ UNCHANGED <<dirExists, fs, fs0, renameFailed, xvars, svars>>

InLoop == pc = "loop" /\ idx <= Len(pdf_files)

\* A slip: is_file() in the place of exists().
FileFound_isfile(tree, pdf_file) ==
    Exists(tree, pdf_file) /\ tree[NodeAt(tree, pdf_file)].kind = "file"

\* rename.py:140, pdf_file.exists()
FileFound(tree, pdf_file) == Exists(tree, pdf_file)

\* rename.py:140-142
SkipMissing ==
    /\ InLoop
    /\ ~FileFound(fs, pdf_files[idx])
    /\ outcome' = [outcome EXCEPT ![idx] = "missing"]
    /\ warnings' = warnings \cup {idx}
    /\ idx' = idx + 1
    /\ UNCHANGED <<dirExists, fs, fs0, run, pc, pdf_files, existing_titles, assigned,
                   safe_titles, errors, renameFailed, xvars, svars>>

\* A slip: the target's existence is not looked at.
ShouldRename_unchecked(tree, pdf_file, new_pdf_path) == new_pdf_path # pdf_file

\* rename.py:147
ShouldRename(tree, pdf_file, new_pdf_path) ==
    new_pdf_path # pdf_file /\ ~Exists(tree, new_pdf_path)

\* what every iteration that calls rename_pdf does, whatever follows
Processed(r) ==
    /\ existing_titles' = r.table
    /\ assigned' = [assigned EXCEPT ![idx] = r.path]
    /\ safe_titles' = [safe_titles EXCEPT ![idx] = r.safe_title]
    /\ idx' = idx + 1
    /\ UNCHANGED <<dirExists, fs0, run, pc, pdf_files, warnings, xvars, svars>>

\* rename.py:145-147, 153-154: no change, or the target exists
Skip ==
    /\ InLoop
    /\ FileFound(fs, pdf_files[idx])
    /\ \E r \in {rename_pdf(DocAt(fs, pdf_files[idx]), pdf_files[idx], existing_titles)} :
           /\ ~ShouldRename(fs, pdf_files[idx], r.path)
           /\ Processed(r)
           /\ outcome' = [outcome EXCEPT ![idx] = "skipped"]
           /\ UNCHANGED <<fs, errors, renameFailed>>

\* rename.py:145-150: os.rename succeeds
Rename ==
    /\ InLoop
    /\ FileFound(fs, pdf_files[idx])
    /\ \E r \in {rename_pdf(DocAt(fs, pdf_files[idx]), pdf_files[idx], existing_titles)} :
           /\ ShouldRename(fs, pdf_files[idx], r.path)
           /\ ~OsRenameRaises(fs, pdf_files[idx], r.path)
           /\ Processed(r)
           /\ fs' = os_rename(fs, pdf_files[idx], r.path)
           /\ outcome' = [outcome EXCEPT ![idx] = "renamed"]
           /\ UNCHANGED <<errors, renameFailed>>

\* A slip: the exception of os.rename is not caught and ends the run.
RenameError_propagates(r) ==
    /\ pc' = "aborted"
    /\ UNCHANGED <<dirExists, fs, fs0, run, pdf_files, idx, existing_titles, outcome,
                   assigned, safe_titles, warnings, errors, xvars, svars>>

\* rename.py:151-152: the except clause, and on to the next file
RenameError(r) ==
    /\ Processed(r)
    /\ outcome' = [outcome EXCEPT ![idx] = "error"]
    /\ errors' = errors \cup {idx}
    /\ UNCHANGED fs

\* rename.py:148-152: os.rename raises (a permission error, a read-only
\* volume, ...: the environment decides)
RenameFails ==
    /\ InLoop
    /\ FileFound(fs, pdf_files[idx])
    /\ \E r \in {rename_pdf(DocAt(fs, pdf_files[idx]), pdf_files[idx], existing_titles)} :
           /\ ShouldRename(fs, pdf_files[idx], r.path)
           /\ RenameError(r)
           /\ renameFailed' = TRUE

\* the for loop is exhausted and the function returns
Finish ==
    /\ pc = "loop"
    /\ idx > Len(pdf_files)
    /\ pc' = "done"
    /\ UNCHANGED <<dirExists, fs, fs0, run, pdf_files, idx, existing_titles, outcome,
                   assigned, safe_titles, warnings, errors, renameFailed, xvars, svars>>

Next ==
    \/ MissingDirectory
    \/ StartRun
    \/ SkipMissing
    \/ Skip
    \/ Rename
    \/ RenameFails
    \/ Finish


(***************************************************************************)
(* extract_best_title, step by step: the metadata reader, then the two      *)
(* text-based extractors with their document handles.                      *)
(***************************************************************************)
Pending == <<"<pending>">>

ExtractIdle ==
    /\ x_stem = <<"f","i","l","e">>
    /\ x_ext = "metadata"
    /\ x_page = 0
    /\ x_handle = [text |-> "none", regex |-> "none"]
    /\ x_result = [metadata |-> Pending, text |-> Pending, regex |-> Pending]
    /\ x_raised = [metadata |-> FALSE, text |-> FALSE, regex |-> FALSE]
    /\ x_title = None
    /\ x_source = "none"

ExtractOff ==
    /\ x_pc = "off"
    /\ x_doc = DocNone
    /\ ExtractIdle

LineAlphabet == {"a", "1", "%", " "}

AllLines == UNION {[1..n -> LineAlphabet] : n \in 0..MaxLineLen}

NoMetadata(pages) ==
    [metaRaises |-> FALSE, title |-> <<>>, openFails |-> FALSE, pages |-> pages]

TextPage(lines) == [raises |-> FALSE, lines |-> lines]

PageRaises == [raises |-> TRUE, lines |-> << <<>> >>]

\* get_text returned ""
PageBlank == TextPage(<< <<>> >>)

PageSamples == {
    PageRaises,
    PageBlank,
    TextPage(<< <<"a","b","c","d">>, <<"2","0","2","4">> >>),
    TextPage(<< <<"a","b","c","d">>, <<"a","%","c","d","e","f">> >>),
    TextPage(<< <<"e_acute","t","u","d","e"," ","TAB","#","1">> >>),
    TextPage(<< <<"H","i">>, <<"a","b","c","d","e","f">> >>) }

MetaTitleSamples == {
    TitleT,
    <<"M","y"," ","D","r","a","f","t">>,
    <<"a","b">>,
    <<"e_acute","t","u","d","e"," ","TAB","#","1">> }

DocInputs ==
    {NoMetadata(<< TextPage(<<l>>) >>) : l \in AllLines}
    \cup {NoMetadata(ps) : ps \in UNION {[1..n -> PageSamples] : n \in 0..MaxPages}}
    \cup {[metaRaises |-> FALSE, title |-> t, openFails |-> FALSE, pages |-> <<>>] :
             t \in MetaTitleSamples}
    \cup {[metaRaises |-> mr, title |-> <<>>, openFails |-> TRUE, pages |-> <<>>] :
             mr \in BOOLEAN}
    \cup {[metaRaises |-> TRUE, title |-> <<>>, openFails |-> FALSE,
           pages |-> << TextPage(<< <<"a","b","c","d","e","f">> >>) >>]}

ExtractInit ==
    /\ x_pc = "metadata"
    /\ x_doc \in DocInputs
    /\ ExtractIdle

\* An extractor returns `value`; extract_best_title (rename.py:81-93) takes it
\* when it is truthy and otherwise goes on to the next step.
Returns(ext, value, raised) ==
    /\ x_result' = [x_result EXCEPT ![ext] = value]
    /\ x_raised' = [x_raised EXCEPT ![ext] = raised]
    /\ x_page' = 0
    /\ IF Truthy(value)
       THEN x_title' = value /\ x_source' = ext /\ x_pc' = "selected" /\ x_ext' = ext
       ELSE IF ext = "metadata"
            THEN x_ext' = "text" /\ x_pc' = "open" /\ UNCHANGED <<x_title, x_source>>
       ELSE IF ext = "text"
            THEN x_ext' = "regex" /\ x_pc' = "open" /\ UNCHANGED <<x_title, x_source>>
       ELSE x_title' = x_stem /\ x_source' = "stem" /\ x_pc' = "selected" /\ x_ext' = ext
    /\ UNCHANGED <<x_doc, x_stem, rvars, svars>>

\* rename.py:27-40
XMetadata ==
    /\ x_pc = "metadata"
    /\ Returns("metadata", get_pdf_title_metadata(x_doc), x_doc.metaRaises)
    /\ UNCHANGED x_handle

\* rename.py:45 / :63, fitz.open raises: the except clause, return None
XOpenFails ==
    /\ x_pc = "open"
    /\ x_doc.openFails
    /\ Returns(x_ext, None, TRUE)
    /\ UNCHANGED x_handle

\* rename.py:45 / :63, fitz.open succeeds
XOpen ==
    /\ x_pc = "open"
    /\ ~x_doc.openFails
    /\ x_handle' = [x_handle EXCEPT ![x_ext] = "open"]
    /\ x_pc' = "scan"
    /\ x_page' = 0
    /\ UNCHANGED <<x_doc, x_stem, x_ext, x_result, x_raised, x_title, x_source, rvars, svars>>

ScanningPage == x_pc = "scan" /\ x_page < PagesToScan(x_doc)

\* rename.py:47 / :65 raises: control goes to the except clause (55-56 /
\* 74-75), which logs; no doc.close() lies on that path
XPageRaises ==
    /\ ScanningPage
    /\ PageOutcome(x_ext, x_doc.pages[x_page + 1]).kind = "raise"
    /\ Returns(x_ext, None, TRUE)
    /\ UNCHANGED x_handle

\* rename.py:51-53 / :70-72: a line is accepted, doc.close(), return it
XAccept ==
    /\ ScanningPage
    /\ LET o == PageOutcome(x_ext, x_doc.pages[x_page + 1])
       IN  /\ o.kind = "accept"
           /\ x_handle' = [x_handle EXCEPT ![x_ext] = "closed"]
           /\ Returns(x_ext, o.line, FALSE)

\* no line of the page is accepted: the next page
XNextPage ==
    /\ ScanningPage
    /\ PageOutcome(x_ext, x_doc.pages[x_page + 1]).kind = "next"
    /\ x_page' = x_page + 1
    /\ UNCHANGED <<x_doc, x_stem, x_pc, x_ext, x_handle, x_result, x_raised,
                   x_title, x_source, rvars, svars>>

\* rename.py:54 / :73 and 58 / 77: the scan ends, doc.close(), return None
XEndScan ==
    /\ x_pc = "scan"
    /\ x_page >= PagesToScan(x_doc)
    /\ x_handle' = [x_handle EXCEPT ![x_ext] = "closed"]
    /\ Returns(x_ext, None, FALSE)

NextExtract ==
    \/ XMetadata
    \/ XOpenFails
    \/ XOpen
    \/ XPageRaises
    \/ XAccept
    \/ XNextPage
    \/ XEndScan

(***************************************************************************)
(* sanitize_filename on its own.                                           *)
(***************************************************************************)
SanitizeOff ==
    /\ s_pc = "off"
    /\ s_title = <<>>
    /\ s_result = None

Word(n) == [i \in 1..n |-> "a"]

\* the pieces the titles are put together from: separators, a reserved
\* character, and words around the half and the whole of the limit
TokenSamples == {
    <<" ">>,
    <<"TAB">>,
    <<":">>,
    Word(1),
    Word((MAX_FILENAME_LENGTH \div 2) - 1),
    Word(MAX_FILENAME_LENGTH \div 2),
    Word(MAX_FILENAME_LENGTH - 1),
    Word(MAX_FILENAME_LENGTH) }

RECURSIVE Concat(_)
Concat(tokens) == IF tokens = <<>> THEN <<>> ELSE Head(tokens) \o Concat(Tail(tokens))

TitleInputs ==
    {Concat(ts) : ts \in UNION {[1..n -> TokenSamples] : n \in 0..MaxTokens}}

SanitizeInit ==
    /\ s_pc = "call"
    /\ s_title \in TitleInputs
    /\ s_result = None

\* rename.py:95-109
Sanitize ==
    /\ s_pc = "call"
    /\ s_result' = sanitize_filename(s_title)
    /\ s_pc' = "returned"
    /\ UNCHANGED <<s_title, rvars, xvars>>

(***************************************************************************)
(* The specifications.                                                     *)
(***************************************************************************)
Init == RunInit /\ ExtractOff /\ SanitizeOff

Spec == Init /\ [][Next]_vars

InitExtract == RunOff /\ ExtractInit /\ SanitizeOff

SpecExtract == InitExtract /\ [][NextExtract]_vars

InitSanitize == RunOff /\ ExtractOff /\ SanitizeInit

NextSanitize == Sanitize

SpecSanitize == InitSanitize /\ [][NextSanitize]_vars

(***************************************************************************)
(* Properties of the runs (specification Spec).                            *)
(***************************************************************************)
\* entries of this run that rename_pdf has been called on
Handled == {i \in 1..Len(pdf_files) : safe_titles[i] # None}

\* of them, those whose sanitized title passed the test of rename.py:116
Titled == {i \in Handled : ~InvalidTitle(safe_titles[i])}

\* entries before i that resolved to the same sanitized title
Earlier(i) == {j \in Handled : j < i /\ safe_titles[j] = safe_titles[i]}

\* "<title>.pdf" for k = 0 and "<title>_<k>.pdf" otherwise
SuffixedName(title, k) ==
    IF k = 0 THEN title \o <<".","p","d","f">>
    ELSE title \o <<"_">> \o DecimalDigits(k) \o <<".","p","d","f">>

\* where the entry is once its iteration is over
FinalPath(i) == IF outcome[i] = "renamed" THEN assigned[i] ELSE pdf_files[i]

\* the selector found no title for entry i and fell back to the stem
Untitleable(i) ==
    /\ i \in Handled
    /\ BestTitle(DocAt(fs, FinalPath(i)), Stem(NameOf(pdf_files[i]))).source = "stem"

OnlyFiles == \A n \in DOMAIN fs0 : fs0[n].kind = "file"

\* C9: at every point of a run the collision-table entry of a base name
\* "<title>.pdf" is the number of entries processed so far whose sanitized
\* title gave that base name, whatever became of their renames; a processed
\* entry adds exactly 1 to its own base name and nothing else, entries never
\* decrease, and a missing entry or one whose title is empty or "untitled"
\* leaves the table as it was.
C9_Counted(b) == {i \in Titled : safe_titles[i] \o <<".","p","d","f">> = b}

C9_Count ==
    pc \in {"loop", "done"} =>
        \A b \in DOMAIN existing_titles
                    \cup {safe_titles[i] \o <<".","p","d","f">> : i \in Titled} :
            Count(existing_titles, b) = Cardinality(C9_Counted(b))

C9_Step ==
    (pc = "loop" /\ idx <= Len(pdf_files) /\ idx' = idx + 1) =>
        LET t == safe_titles'[idx]
            keys == DOMAIN existing_titles \cup DOMAIN existing_titles'
        IN  IF t = None \/ InvalidTitle(t)
            THEN existing_titles' = existing_titles
            ELSE \A b \in keys :
                    Count(existing_titles', b) =
                        Count(existing_titles, b)
                            + (IF b = t \o <<".","p","d","f">> THEN 1 ELSE 0)

C9_CollisionTable == []C9_Count /\ [][C9_Step]_vars

\* a base name counted twice, once for a rename and once for a skip, beside
\* an entry whose title was "untitled"
C9_Witness ==
    /\ pc = "done"
    /\ \E i, j \in Titled :
          /\ i # j
          /\ safe_titles[i] = safe_titles[j]
          /\ outcome[i] = "renamed"
          /\ outcome[j] = "skipped"
          /\ Count(existing_titles, safe_titles[i] \o <<".","p","d","f">>) = 2
    /\ \E k \in Handled : InvalidTitle(safe_titles[k])

\* C1 (as amended): in one run, among the entries that are processed and
\* resolve to the same sanitized title, when that title is neither empty nor
\* "untitled", the first in enumeration order is assigned "<title>.pdf" and
\* the k-th after it "<title>_<k>.pdf", each in its own directory; an entry
\* whose title is empty or "untitled" is assigned its own path; and no two
\* entries end the run at the same path.
C1_Assigned ==
    \A i \in Handled :
        IF InvalidTitle(safe_titles[i])
        THEN assigned[i] = pdf_files[i]
        ELSE assigned[i] =
                Append(ParentPath(pdf_files[i]),
                       SuffixedName(safe_titles[i], Cardinality(Earlier(i))))

C1_FinalPathsDiffer ==
    \A i, j \in Handled :
        i # j => (FinalPath(i) # FinalPath(j) /\ Exists(fs, FinalPath(i)))

C1_SuffixesInOrder == pc \in {"loop", "done"} => (C1_Assigned /\ C1_FinalPathsDiffer)

\* three entries of one title, assigned the bare name, _1 and _2 in that order
C1_Witness ==
    /\ pc = "done"
    /\ Len(pdf_files) = 3
    /\ Titled = {1, 2, 3}
    /\ safe_titles[1] = safe_titles[2]
    /\ safe_titles[2] = safe_titles[3]
    /\ NameOf(assigned[1]) = SuffixedName(safe_titles[1], 0)
    /\ NameOf(assigned[2]) = SuffixedName(safe_titles[1], 1)
    /\ NameOf(assigned[3]) = SuffixedName(safe_titles[1], 2)
    /\ \A i \in 1..3 : outcome[i] = "renamed"

\* C1 as stated: of the N entries that resolve to one sanitized title, exactly
\* one is assigned the bare name "<title>.pdf", the k-th after the first is
\* assigned "<title>_<k>.pdf", and no two end the run at the same path.
C1_Group(i) == {j \in Handled : safe_titles[j] = safe_titles[i]}

C1_AsStated ==
    (pc = "done" /\ OnlyFiles) =>
        \A i \in Handled :
            /\ Cardinality({j \in C1_Group(i) :
                    NameOf(assigned[j]) = SuffixedName(safe_titles[i], 0)}) = 1
            /\ \A k \in 1..(Cardinality(C1_Group(i)) - 1) :
                  \E j \in C1_Group(i) :
                      /\ Cardinality(Earlier(j)) = k
                      /\ NameOf(assigned[j]) = SuffixedName(safe_titles[i], k)
            /\ \A j \in C1_Group(i) : j # i => FinalPath(i) # FinalPath(j)

\* C2: a second run over the directory a first run left (a directory of plain
\* files, no os.rename having failed) renames nothing: every entry is skipped.
C2_SecondRunRenamesNothing ==
    (run = 2 /\ OnlyFiles /\ ~renameFailed) =>
        \A i \in 1..Len(pdf_files) : outcome[i] \in {"pending", "skipped"}

\* C3 (as amended): an entry for which the three extractors find no title is
\* given its stem as the title; its target is "<sanitized stem>.pdf" in its own
\* directory, with the suffix _<k> when k earlier entries of the run resolved
\* to the same sanitized title.  It keeps its path (and is skipped) when
\* sanitizing leaves the stem unchanged and no earlier entry of the run
\* resolved to it, or when the sanitized stem is empty or "untitled".
C3_Target(i) ==
    LET stem == Stem(NameOf(pdf_files[i]))
        safe == sanitize_filename(stem)
    IN  /\ safe_titles[i] = safe
        /\ IF InvalidTitle(safe) \/ (safe = stem /\ Earlier(i) = {})
           THEN assigned[i] = pdf_files[i] /\ outcome[i] = "skipped"
           ELSE /\ assigned[i] # pdf_files[i]
                /\ assigned[i] =
                      Append(ParentPath(pdf_files[i]),
                             SuffixedName(safe, Cardinality(Earlier(i))))

C4_SameNodes ==
    /\ DOMAIN fs = DOMAIN fs0
    /\ \A n \in DOMAIN fs :
          /\ fs[n].parent = fs0[n].parent
          /\ fs[n].kind = fs0[n].kind
          /\ fs[n].doc = fs0[n].doc
    /\ DistinctPaths(fs)
    /\ \A d \in {0} \cup DOMAIN fs0 :
          Cardinality({n \in DOMAIN fs : fs[n].parent = d})
              = Cardinality({n \in DOMAIN fs0 : fs0[n].parent = d})

C4_Step ==
    fs' # fs =>
        /\ InLoop
        /\ Exists(fs, pdf_files[idx])
        /\ \E n \in DOMAIN fs :
              /\ n = NodeAt(fs, pdf_files[idx])
              /\ DOMAIN fs' = DOMAIN fs
              /\ \A m \in DOMAIN fs \ {n} : fs'[m] = fs[m]
              /\ fs'[n] = [fs[n] EXCEPT !.name = fs'[n].name]
              /\ ~Exists(fs, PathOf(fs', n))
              /\ ParentPath(PathOf(fs', n)) = ParentPath(pdf_files[idx])

C4_InPlaceRenamesOnly == []C4_SameNodes /\ [][C4_Step]_vars

\* a rename inside a subdirectory, beside an entry that was skipped because
\* its target existed
C4_Witness ==
    /\ pc = "done"
    /\ \E i, j \in Handled :
          /\ outcome[i] = "renamed"
          /\ Len(pdf_files[i]) = 2
          /\ outcome[j] = "skipped"
          /\ assigned[j] # pdf_files[j]

\* C6: a failure on one entry never ends the run.  An os.rename that raises is
\* logged and leaves the entry where it was, an entry whose extractors all
\* raise is processed like any other, every iteration moves the loop on by
\* exactly one entry of a list that does not change, and the run ends with
\* every enumerated entry visited once.
C6_Visited ==
    (pc \in {"loop", "done"} /\ dirExists) =>
        /\ idx \in 1..(Len(pdf_files) + 1)
        /\ \A i \in 1..Len(pdf_files) : (outcome[i] # "pending") <=> (i < idx)
        /\ errors = {i \in 1..Len(pdf_files) : outcome[i] = "error"}
        /\ \A i \in errors : Exists(fs, pdf_files[i]) /\ assigned[i] # pdf_files[i]

C6_State ==
    /\ pc \in {"idle", "loop", "done"}
    /\ C6_Visited
    /\ (pc = "done" /\ dirExists) => idx = Len(pdf_files) + 1

C6_Step ==
    InLoop => (pc' = "loop" /\ idx' = idx + 1 /\ pdf_files' = pdf_files)

C8_Moved(i) ==
    \E j \in 1..(i - 1) :
        /\ outcome[j] = "renamed"
        /\ Len(pdf_files[j]) < Len(pdf_files[i])
        /\ SubSeq(pdf_files[i], 1, Len(pdf_files[j])) = pdf_files[j]

C8_MissingByOwnRename ==
    pc \in {"loop", "done"} =>
        /\ \A i \in 1..Len(pdf_files) :
              /\ outcome[i] = "missing" => (C8_Moved(i) /\ i \in warnings /\ assigned[i] = None)
              /\ i \in warnings => outcome[i] = "missing"
        /\ InLoop => (~Exists(fs, pdf_files[idx]) <=> C8_Moved(idx))

\* a file skipped with the warning, in a run over a tree nothing else touches
C8_Witness ==
    /\ pc = "done"
    /\ \E i \in 1..Len(pdf_files) :
          /\ outcome[i] = "missing"
          /\ i \in warnings
          /\ \E n \in DOMAIN fs :
                /\ fs[n].kind = "file"
                /\ NameOf(PathOf(fs, n)) = NameOf(pdf_files[i])
                /\ PathOf(fs0, n) = pdf_files[i]

(***************************************************************************)
(* Properties of the extractors (specification SpecExtract).               *)
(***************************************************************************)
TextBased == {"text", "regex"}

\* C5: in both text-based extractors a handle that fitz.open returned is
\* closed by the time the call has returned, on every path out of it.
C5_HandleClosedOnReturn ==
    \A ext \in TextBased : x_result[ext] # Pending => x_handle[ext] # "open"

\* the lines of the pages a scan of the document reads
C10_ScannedLines ==
    UNION {Range(x_doc.pages[p].lines) : p \in 1..PagesToScan(x_doc)}

\* C10: the regex extractor never supplies the title.  A cleaned line the
\* regex predicate accepts is accepted by the first-page predicate too, the
\* placeholder "Untitled" included; so when the first-page extractor returns
\* no title without raising, the regex extractor returns none either, and the
\* title selected is the metadata title, the first-page title or the stem.
C10_RegexNeverSelected ==
    /\ \A l \in C10_ScannedLines :
          RegexAccepts(normalize_text(l)) => TextAccepts(normalize_text(l))
    /\ RegexAccepts(Untitled) /\ TextAccepts(Untitled)
    /\ (x_result.text = None /\ ~x_raised.text /\ x_result.regex # Pending)
          => x_result.regex = None
    /\ x_source # "regex"
    /\ x_pc = "selected" =>
          \/ x_source = "metadata" /\ x_title = x_result.metadata
          \/ x_source = "text" /\ x_title = x_result.text
          \/ x_source = "stem" /\ x_title = x_stem

\* both extractors read a page with text on it to the end, neither raised,
\* and the stem was selected
C10_Witness ==
    /\ x_pc = "selected"
    /\ x_source = "stem"
    /\ ~x_raised.text
    /\ ~x_raised.regex
    /\ x_handle.regex = "closed"
    /\ \E p \in 1..PagesToScan(x_doc) : TextTruthy(x_doc.pages[p].lines)

(***************************************************************************)
(* Properties of the sanitizer (specification SpecSanitize).               *)
(***************************************************************************)
\* words joined by single spaces
RECURSIVE C7_Join(_)
C7_Join(words) ==
    IF words = <<>> THEN <<>>
    ELSE IF Len(words) = 1 THEN words[1]
    ELSE words[1] \o <<" ">> \o C7_Join(Tail(words))

\* C7: sanitize_filename returns at most MAX_FILENAME_LENGTH characters and
\* never ends inside a word: a title that is within the limit once its
\* reserved characters are replaced is returned as it is, and a longer one
\* gives its leading whole words joined by single spaces, no word cut.
C7_WholeWords ==
    s_pc = "returned" =>
        LET t == [i \in DOMAIN s_title |->
                    IF s_title[i] \in {"<", ">", ":", "\"", "/", "\\", "|", "?", "*"}
                    THEN "_" ELSE s_title[i]]
            words == Split(t)
        IN  /\ Len(s_result) <= MAX_FILENAME_LENGTH
            /\ Len(t) <= MAX_FILENAME_LENGTH => s_result = t
            /\ Len(t) > MAX_FILENAME_LENGTH =>
                  \E k \in 0..Len(words) :
                      /\ s_result = C7_Join(SubSeq(words, 1, k))
                      /\ Split(s_result) = SubSeq(words, 1, k)

\* a title over the limit, cut after its first word
C7_Witness ==
    /\ s_pc = "returned"
    /\ Len(s_title) > MAX_FILENAME_LENGTH
    /\ Len(Split(s_title)) >= 2
    /\ Len(Split(s_result)) = 1
    /\ s_result = Split(s_title)[1]

=============================================================================
